---- MODULE Spec2Model ----
(***************************************************************************)
(* Model of src/main.py: a data-access layer over one sqlite3 table        *)
(* (videogames) and the VideoGameModel dataclass.                          *)
(*                                                                         *)
(* The connection is opened with sqlite3.connect() and its default         *)
(* isolation level, so the sqlite3 module issues an implicit BEGIN before  *)
(* an INSERT or DELETE when no transaction is open, and nothing in the     *)
(* program ever commits.  The table's UNIQUE(name) constraint is declared  *)
(* ON CONFLICT ROLLBACK, which rolls back the whole open transaction.      *)
(***************************************************************************)
EXTENDS Integers, Sequences, FiniteSets, TLC

(* ---------------------------- bounds ---------------------------------- *)

\* Inserts are enabled only while the AUTOINCREMENT counter is below this.
MaxRowId == 3

(* ------------------------ Python values ------------------------------- *)

\* A Python value: its type name, its numeric value (numbers) and its
\* characters (str).
None == [t |-> "NoneType", n |-> 0, s |-> <<>>]

PyInt(n) == [t |-> "int", n |-> n, s |-> <<>>]

PyFloat(n) == [t |-> "float", n |-> n, s |-> <<>>]

PyStr(s) == [t |-> "str", n |-> 0, s |-> s]

\* isinstance(value, int)
IsInstanceInt(value) == value.t = "int"

IsNumber(value) == value.t \in {"int", "float"}

\* Python's == on the values above: numbers compare by value across int
\* and float, a str equals only a str with the same characters.
PyEq(a, b) ==
    IF IsNumber(a) /\ IsNumber(b) THEN a.n = b.n
    ELSE a.t = b.t /\ a.s = b.s

Digits == {"0", "1", "2", "3", "4", "5", "6", "7", "8", "9"}

DigitVal(c) ==
    CASE c = "0" -> 0 [] c = "1" -> 1 [] c = "2" -> 2 [] c = "3" -> 3
      [] c = "4" -> 4 [] c = "5" -> 5 [] c = "6" -> 6 [] c = "7" -> 7
      [] c = "8" -> 8 [] c = "9" -> 9

\* Text that sqlite reads as a number (here: a non-empty run of digits).
LooksNumeric(s) == Len(s) > 0 /\ \A i \in 1..Len(s) : s[i] \in Digits

RECURSIVE ParseNumber(_)
ParseNumber(s) ==
    IF s = <<>> THEN 0
    ELSE 10 * ParseNumber(SubSeq(s, 1, Len(s) - 1)) + DigitVal(s[Len(s)])

\* Column "rating REAL NOT NULL": the value sqlite stores for a bound
\* parameter under REAL affinity.  None is stored as NULL.
RealAffinity(value) ==
    CASE value.t = "int" -> PyFloat(value.n)
      [] value.t = "float" -> value
      [] value.t = "str" ->
            IF LooksNumeric(value.s) THEN PyFloat(ParseNumber(value.s)) ELSE value
      [] OTHER -> None

(* ------------------------- input domains ------------------------------ *)

Names == {"Satisfactory", "Factorio"}

\* main() passes rating="90"; the field is declared float.
Ratings == {PyFloat(90), PyInt(75), PyStr(<<"9", "0">>), None}

\* Values a caller may pass as identifier.
IdValues == {None, PyStr(<<"x">>), PyInt(1)}

\* Arguments of delete_video_game_by_id; 999 is an id no row ever has.
DeleteIds == (1..MaxRowId) \cup {999}

(* ---------------------------- errors ---------------------------------- *)

NoError == "none"

IntegrityError == "IntegrityError"

OperationalError == "OperationalError"

TypeError == "TypeError"

ValueError == "ValueError"

(* -------------------------- entity model ------------------------------ *)

\* The dataclass-generated __init__: the three fields are stored as given.
VideoGameModel(name, rating, id) == [name |-> name, rating |-> rating, _id |-> id]

\* The id property setter: the exception it raises, if any.
IdSetterRaises(value) == IF ~IsInstanceInt(value) THEN ValueError ELSE NoError

\* The id property setter: the entity after the assignment.
IdSetter(game, value) ==
    IF ~IsInstanceInt(value) THEN game ELSE [game EXCEPT !._id = value]

(* ------------------------------ state --------------------------------- *)

VARIABLES
    table_exists,    \* the videogames table has been created
    rows,            \* rows of videogames: records [id, name, rating]
    seq,             \* sqlite_sequence entry of videogames (AUTOINCREMENT)
    in_transaction,  \* db.in_transaction
    snap_rows,       \* rows at the BEGIN of the open transaction
    snap_seq,        \* seq at the BEGIN of the open transaction
    video_game,      \* the caller's VideoGameModel instance
    cursor,          \* the cursor acquired by the most recent call
    high_id,         \* greatest id written back by a successful insert so far
    last             \* the most recent call, its outcome and its pre-state

vars == <<table_exists, rows, seq, in_transaction, snap_rows, snap_seq,
          video_game, cursor, high_id, last>>

(* ------------------------ database_context ---------------------------- *)

\* database_context: the cursor is closed by the statement after the yield,
\* which runs only when the body of the with block did not raise.
database_context(raised) == IF raised = NoError THEN "closed" ELSE "open"

(* --------------------------- SQL helpers ------------------------------ *)

Max(a, b) == IF a >= b THEN a ELSE b

RECURSIVE MaxId(_)
MaxId(rs) ==
    IF rs = {} THEN 0
    ELSE LET r == CHOOSE x \in rs : TRUE
         IN Max(r.id, MaxId(rs \ {r}))

\* INTEGER PRIMARY KEY AUTOINCREMENT: one more than the largest rowid the
\* table has ever held.
NextRowId(rs, sq) == Max(sq, MaxId(rs)) + 1

\* Mutant: the name column without its UNIQUE constraint.
UniqueViolation_Unchecked(rs, name) == FALSE

\* UNIQUE(name): the insert would duplicate a name.
UniqueViolation(rs, name) == \E r \in rs : r.name = name

\* NOT NULL on rating.
NotNullViolation(stored) == stored = None

\* The sqlite3 module opens a transaction before a DML statement when none
\* is open; the snapshot is what a later ROLLBACK restores.
BeginRows(inTx, rs, snapRs) == IF inTx THEN snapRs ELSE rs

BeginSeq(inTx, sq, snapSq) == IF inTx THEN snapSq ELSE sq

\* How the INSERT of add_video_game ends.  NOT NULL is checked before the
\* UNIQUE index; NOT NULL aborts the statement, UNIQUE is ON CONFLICT
\* ROLLBACK.
InsertOutcome(exists, rs, game) ==
    IF ~exists THEN "no_table"
    ELSE IF NotNullViolation(RealAffinity(game.rating)) THEN "not_null"
    ELSE IF UniqueViolation(rs, game.name) THEN "unique"
    ELSE "ok"

InsertRaises(outcome) ==
    CASE outcome = "no_table" -> OperationalError
      [] outcome = "not_null" -> IntegrityError
      [] outcome = "unique" -> IntegrityError
      [] OTHER -> NoError

\* Mutant: the identifier is written back before the INSERT is known to
\* have succeeded.
WriteBack_Always(game, raised, lastrowid) == IdSetter(game, PyInt(lastrowid))

\* video_game.id = cursor.lastrowid, reached only when execute() returned.
WriteBack(game, raised, lastrowid) ==
    IF raised = NoError THEN IdSetter(game, PyInt(lastrowid)) ELSE game

\* Rows of a table as fetchall() yields them (rowid order), as entities.
RECURSIVE FetchAll(_)
FetchAll(rs) ==
    IF rs = {} THEN <<>>
    ELSE LET r == CHOOSE x \in rs : \A y \in rs : x.id <= y.id
         IN <<VideoGameModel(r.name, r.rating, PyInt(r.id))>> \o FetchAll(rs \ {r})

\* SELECT ... WHERE name = ?
SelectByName(rs, name) == {r \in rs : r.name = name}

\* VideoGameModel(*cursor.fetchone()): fetchone() is None when no row
\* matched, and unpacking None raises TypeError.
FetchOneRaises(exists, matches) ==
    IF ~exists THEN OperationalError
    ELSE IF matches = {} THEN TypeError
    ELSE NoError

\* What get_video_game_by_name returns: a list of the one entity returned,
\* empty when the call raised.
FetchOne(exists, matches) ==
    IF FetchOneRaises(exists, matches) # NoError THEN <<>>
    ELSE <<FetchAll(matches)[1]>>

\* Mutant: DELETE ... WHERE id <= ?
DeleteRows_UpTo(rs, id) == {r \in rs : r.id > id}

\* DELETE FROM videogames WHERE id = ?
DeleteRows(rs, id) == {r \in rs : r.id # id}

\* Mutant: the table is dropped and created anew.
CreateTableRows_Recreate(exists, rs) == {}

\* CREATE TABLE IF NOT EXISTS: the rows of the table after the statement.
CreateTableRows(exists, rs) == IF exists THEN rs ELSE {}

\* The part of the state before a call that the record of the call keeps.
Pre == [exists |-> table_exists, rows |-> rows, game |-> video_game,
        high_id |-> high_id]

\* The record of a call.
Call(op, raised, name, id, value, ret) ==
    [op |-> op, raised |-> raised, name |-> name, id |-> id, value |-> value,
     ret |-> ret, pre |-> Pre]

(* ------------------------------ Init ---------------------------------- *)

\* db = sqlite3.connect(":memory:"): an empty database, no table.
Init ==
    /\ table_exists = FALSE
    /\ rows = {}
    /\ seq = 0
    /\ in_transaction = FALSE
    /\ snap_rows = {}
    /\ snap_seq = 0
    /\ video_game \in {VideoGameModel(nm, PyFloat(90), None) : nm \in Names}
    /\ cursor = "none"
    /\ high_id = 0
    /\ last = Call("init", NoError, "", 0, None, <<>>)

(* ----------------------------- actions -------------------------------- *)

\* VideoGameModel(name, rating, _id) constructed by the caller.
Construct ==
    \E nm \in Names, r \in Ratings, i \in IdValues :
        /\ video_game' = VideoGameModel(nm, r, i)
        /\ last' = Call("construct", NoError, nm, 0, i, <<>>)
        /\ UNCHANGED <<table_exists, rows, seq, in_transaction, snap_rows,
                       snap_seq, cursor, high_id>>

\* video_game.id = value
SetId ==
    \E value \in IdValues :
        /\ video_game' = IdSetter(video_game, value)
        /\ last' = Call("set_id", IdSetterRaises(value), "", 0, value, <<>>)
        /\ UNCHANGED <<table_exists, rows, seq, in_transaction, snap_rows,
                       snap_seq, cursor, high_id>>

\* create_video_game_table(db)
create_video_game_table ==
    /\ table_exists' = TRUE
    /\ rows' = CreateTableRows(table_exists, rows)
    /\ cursor' = database_context(NoError)
    /\ last' = Call("create_table", NoError, "", 0, None, <<>>)
    /\ UNCHANGED <<seq, in_transaction, snap_rows, snap_seq, video_game, high_id>>

\* add_video_game(db, video_game)
add_video_game ==
    LET outcome == InsertOutcome(table_exists, rows, video_game)
        raised == InsertRaises(outcome)
        lastrowid == NextRowId(rows, seq)
        stored == [id |-> lastrowid, name |-> video_game.name,
                   rating |-> RealAffinity(video_game.rating)]
        beginRows == BeginRows(in_transaction, rows, snap_rows)
        beginSeq == BeginSeq(in_transaction, seq, snap_seq)
    IN  /\ outcome = "ok" => seq < MaxRowId
        /\ rows' = CASE outcome = "ok" -> rows \cup {stored}
                     [] outcome = "unique" -> beginRows
                     [] OTHER -> rows
        /\ seq' = CASE outcome = "ok" -> lastrowid
                    [] outcome = "unique" -> beginSeq
                    [] OTHER -> seq
        /\ in_transaction' = CASE outcome = "ok" -> TRUE
                               [] outcome = "not_null" -> TRUE
                               [] outcome = "unique" -> FALSE
                               [] OTHER -> in_transaction
        /\ snap_rows' = IF outcome = "no_table" THEN snap_rows ELSE beginRows
        /\ snap_seq' = IF outcome = "no_table" THEN snap_seq ELSE beginSeq
        /\ video_game' = WriteBack(video_game, raised, lastrowid)
        /\ high_id' = IF raised = NoError THEN Max(high_id, lastrowid) ELSE high_id
        /\ cursor' = database_context(raised)
        /\ last' = Call("add", raised, video_game.name, 0, None, <<>>)
        /\ UNCHANGED table_exists

\* get_all_video_games(db)
get_all_video_games ==
    LET raised == IF table_exists THEN NoError ELSE OperationalError
    IN  /\ cursor' = database_context(raised)
        /\ last' = Call("get_all", raised, "", 0, None,
                        IF raised = NoError THEN FetchAll(rows) ELSE <<>>)
        /\ UNCHANGED <<table_exists, rows, seq, in_transaction, snap_rows,
                       snap_seq, video_game, high_id>>

\* get_video_game_by_name(db, name)
get_video_game_by_name ==
    \E name \in Names :
        LET matches == SelectByName(rows, name)
            raised == FetchOneRaises(table_exists, matches)
        IN  /\ cursor' = database_context(raised)
            /\ last' = Call("get_by_name", raised, name, 0, None,
                            FetchOne(table_exists, matches))
            /\ UNCHANGED <<table_exists, rows, seq, in_transaction, snap_rows,
                           snap_seq, video_game, high_id>>

\* delete_video_game_by_id(db, id)
delete_video_game_by_id ==
    \E id \in DeleteIds :
        LET raised == IF table_exists THEN NoError ELSE OperationalError
        IN  /\ rows' = IF raised = NoError THEN DeleteRows(rows, id) ELSE rows
            /\ in_transaction' = IF raised = NoError THEN TRUE ELSE in_transaction
            /\ snap_rows' = IF raised = NoError
                              THEN BeginRows(in_transaction, rows, snap_rows)
                              ELSE snap_rows
            /\ snap_seq' = IF raised = NoError
                             THEN BeginSeq(in_transaction, seq, snap_seq)
                             ELSE snap_seq
            /\ cursor' = database_context(raised)
            /\ last' = Call("delete", raised, "", id, None, <<>>)
            /\ UNCHANGED <<table_exists, seq, video_game, high_id>>

Next ==
    \/ Construct
    \/ SetId
    \/ create_video_game_table
    \/ add_video_game
    \/ get_all_video_games
    \/ get_video_game_by_name
    \/ delete_video_game_by_id

Spec == Init /\ [][Next]_vars

(* ------------------------------ claims -------------------------------- *)

\* The error kind a failed lookup is said to raise.
NotFound == "NotFound"

\* The most recent call was add_video_game on an existing table with a
\* name that a row already had.
DuplicateInsert ==
    /\ last.op = "add"
    /\ last.pre.exists
    /\ UniqueViolation(last.pre.rows, last.pre.game.name)

\* C1: an insert whose name already exists fails with a constraint
\* violation and leaves the store exactly as it was before the call.
C1_DuplicateInsertLeavesStore ==
    DuplicateInsert => (last.raised = IntegrityError /\ rows = last.pre.rows)

\* C2: in every reachable state no two rows of videogames have the same
\* name.
C2_UniqueNames ==
    \A r1 \in rows : \A r2 \in rows : (r1.name = r2.name) => (r1 = r2)

C2_Witness ==
    /\ Cardinality(rows) = 2
    /\ last.op = "add"
    /\ last.raised = NoError

\* C3: after a successful insert of e, the lookup of e.name returns an
\* entity with e's name and rating and with the integer id written back
\* into e.
C3_RoundTrip ==
    (last.op = "add" /\ last.raised = NoError) =>
        LET ret == FetchOne(table_exists, SelectByName(rows, video_game.name))
        IN  /\ Len(ret) = 1
            /\ ret[1].name = video_game.name
            /\ PyEq(ret[1].rating, video_game.rating)
            /\ IsInstanceInt(ret[1]._id)
            /\ ret[1]._id = video_game._id

\* C4: after any call on the created table, whether it returned or raised,
\* the cursor the call acquired is no longer open.
C4_CursorReleased == last.pre.exists => cursor # "open"

\* C5: a lookup of a name no row has fails with a not-found error, returns
\* no entity and leaves the store unchanged.
C5_LookupNotFound ==
    (/\ last.op = "get_by_name"
     /\ last.pre.exists
     /\ SelectByName(last.pre.rows, last.name) = {})
    => (last.raised = NotFound /\ last.ret = <<>> /\ rows = last.pre.rows)

\* C6: delete_video_game_by_id removes exactly the row with the given id,
\* leaves every other row unchanged, so that get_all_video_games no longer
\* returns it; with no such row it succeeds and the store is unchanged.
C6_DeleteFrame ==
    (last.op = "delete" /\ last.pre.exists) =>
        /\ last.raised = NoError
        /\ \A r \in last.pre.rows : (r.id # last.id) => r \in rows
        /\ rows \subseteq last.pre.rows
        /\ \A i \in 1..Len(FetchAll(rows)) : FetchAll(rows)[i]._id # PyInt(last.id)
        /\ (\A r \in last.pre.rows : r.id # last.id) => rows = last.pre.rows

C6_Witness ==
    /\ last.op = "delete"
    /\ last.raised = NoError
    /\ Cardinality(last.pre.rows) = 2
    /\ \E r \in last.pre.rows : r.id = last.id
    /\ Cardinality(rows) = 1

\* C7: create_video_game_table called when the table is already present
\* does not fail and leaves every row unchanged.
C7_CreateIdempotent ==
    (last.op = "create_table" /\ last.pre.exists) =>
        (last.raised = NoError /\ table_exists /\ rows = last.pre.rows)

C7_Witness ==
    /\ last.op = "create_table"
    /\ last.pre.exists
    /\ last.pre.rows # {}

\* C8: assigning a non-integer to the identifier fails with a type error and
\* leaves the identifier unchanged, and the identifier of every entity is
\* either absent or an integer.
C8_IdentifierGuard ==
    /\ video_game._id = None \/ IsInstanceInt(video_game._id)
    /\ (last.op = "set_id" /\ ~IsInstanceInt(last.value)) =>
           (last.raised = TypeError /\ video_game._id = last.pre.game._id)

\* C9: an insert that fails because the name already exists does not
\* modify the identifier of the entity passed to it.
C9_FailedInsertKeepsId ==
    DuplicateInsert =>
        /\ last.raised # NoError
        /\ video_game._id = last.pre.game._id

C9_Witness ==
    /\ DuplicateInsert
    /\ last.raised = IntegrityError
    /\ ~NotNullViolation(RealAffinity(last.pre.game.rating))
    /\ last.pre.game._id = None
    /\ video_game._id = None

\* C10: each successful insert writes back an id strictly greater than
\* every id written back by an earlier successful insert.
C10_IdsNeverReused ==
    (last.op = "add" /\ last.raised = NoError) =>
        video_game._id.n > last.pre.high_id

====
